---- MODULE Spec2Model ----
(***************************************************************************)
(* Model of hqc_meas.tasks.tools.task_database.TaskDatabase.              *)
(*                                                                         *)
(* Python strings are sequences of one-character strings, so that         *)
(* str.split, str.rpartition and concatenation are computed, not assumed. *)
(* The database is a heap of dict objects: a DatabaseNode stored in a     *)
(* dict is a reference to another dict object.                            *)
(***************************************************************************)
EXTENDS Integers, Sequences, FiniteSets, TLC

\* ---------------------------------------------------------------- bounds
\* Number of dict objects that can be alive at once (the root included).
MaxNodes == 3
\* Stored values are the integers 1..MaxVal.
MaxVal == 2
\* Number of threads of the running phase.
NumThreads == 2

\* --------------------------------------------------------------- strings
SLASH == "/"
USCORE == "_"
EmptyStr == << >>
ROOT == <<"r", "o", "o", "t">>
StrA == <<"a">>
StrUA == <<"_", "a">>

\* Node names given to create_node / rename_node / delete_node.
NodeNames == {StrA, StrUA}
\* Value names given to set_value / get_value / delete_value.
ValueNames == {StrA}
Values == 1..MaxVal

\* '_' + value_name
SafeName(value_name) == <<USCORE>> \o value_name

StrThreads == <<"t", "h", "r", "e", "a", "d", "s">>
StrInstrs == <<"i", "n", "s", "t", "r", "s">>

\* excluded = List(Str(), ['threads', 'instrs'])
excluded == <<StrThreads, StrInstrs>>

\* Value names stored in the states whose entries are listed.
EntryNames == ValueNames \cup {StrThreads}

\* Every key a dict of the database can hold.
Keys == NodeNames \cup {SafeName(n) : n \in ValueNames \cup EntryNames}

\* node_path + '/' + value_name
Join(path, name) == path \o <<SLASH>> \o name

\* Paths handed to the operations: 'root', 'root/x' and 'root/a/x'.
Paths1 == {Join(ROOT, x) : x \in NodeNames}
Paths2 == {Join(Join(ROOT, StrA), x) : x \in NodeNames}
Paths == {ROOT} \cup Paths1 \cup Paths2
\* Parents handed to create_node, rename_node and delete_node: those whose
\* children are among Paths.
ParentPaths == {p \in Paths : \A x \in NodeNames : Join(p, x) \in Paths}

\* Index of the first '/' of s, 0 when there is none.
FindSlash(s) ==
    IF \E i \in 1..Len(s) : s[i] = SLASH
    THEN CHOOSE i \in 1..Len(s) : s[i] = SLASH /\ \A j \in 1..(i-1) : s[j] # SLASH
    ELSE 0

\* Index of the last '/' of s, 0 when there is none.
RFindSlash(s) ==
    IF \E i \in 1..Len(s) : s[i] = SLASH
    THEN CHOOSE i \in 1..Len(s) : s[i] = SLASH /\ \A j \in (i+1)..Len(s) : s[j] # SLASH
    ELSE 0

\* s.split('/')
RECURSIVE Split(_)
Split(s) ==
    LET i == FindSlash(s)
    IN  IF i = 0 THEN <<s>>
        ELSE <<SubSeq(s, 1, i - 1)>> \o Split(SubSeq(s, i + 1, Len(s)))

\* s.rpartition('/')[0]
RPartitionHead(s) ==
    LET i == RFindSlash(s)
    IN  IF i = 0 THEN EmptyStr ELSE SubSeq(s, 1, i - 1)

\* ------------------------------------------------------------------ heap
NodeIds == 0..(MaxNodes - 1)
RootId == 0

\* What a dict holds under a key: nothing, a DatabaseNode (x is the id of
\* the dict object) or a plain value (x is the value).
Absent == [kind |-> "absent", x |-> 0]
NodeRef(id) == [kind |-> "node", x |-> id]
Val(v) == [kind |-> "val", x |-> v]

EmptyDict == [k \in Keys |-> Absent]

\* key in node  (node is the id of a dict object)
Contains(db, node, key) == key \in Keys /\ db[node][key].kind # "absent"

\* Results of calls: a returned object or a raised exception.
Ok(entry) == [tag |-> "ok", kind |-> entry.kind, x |-> entry.x]
OkNone == [tag |-> "ok", kind |-> "none", x |-> 0]
OkBool(b) == [tag |-> "ok", kind |-> "bool", x |-> IF b THEN 1 ELSE 0]
Raise(exc) == [tag |-> exc, kind |-> "none", x |-> 0]

\* --------------------------------------------------------------- storage
\* Dict objects reachable from the objects of S through DatabaseNode entries.
RECURSIVE ReachFrom(_, _)
ReachFrom(db, S) ==
    LET T == S \cup UNION {{db[i][k].x : k \in {kk \in Keys : db[i][kk].kind = "node"}} : i \in S}
    IN  IF T = S THEN S ELSE ReachFrom(db, T)

\* Objects no longer referenced are reclaimed (reference counting): their
\* slot becomes an empty dict again, ready for the next DatabaseNode().
Collect(db, roots) ==
    LET live == ReachFrom(db, roots \cup {RootId})
    IN  [i \in NodeIds |-> IF i \in live THEN db[i] ELSE EmptyDict]

FreeIds(db, roots) == NodeIds \ ReachFrom(db, roots \cup {RootId})

\* Slot used by the next DatabaseNode().
NewId(db, roots) ==
    CHOOSE i \in FreeIds(db, roots) : \A j \in FreeIds(db, roots) : i <= j

\* ----------------------------------------------------------- _go_to_path
\* The loop `for key in keys` of _go_to_path, cur being the variable `node`.
\* A stored value is an int: `key in node` on it raises TypeError.
RECURSIVE Descend(_, _, _)
Descend(db, keys, cur) ==
    IF keys = << >> THEN Ok(cur)
    ELSE IF cur.kind # "node" THEN Raise("TypeError")
    ELSE IF Contains(db, cur.x, Head(keys))
         THEN Descend(db, Tail(keys), db[cur.x][Head(keys)])
         ELSE Raise("ValueError")

go_to_path(db, path) ==
    IF path = ROOT THEN Ok(NodeRef(RootId))
    ELSE Descend(db, Tail(Split(path)), NodeRef(RootId))

\* ------------------------------------------------------------ operations
\* A notification is the tuple assigned to the notifier event:
\* (path, value) has arity 2, (path,) has arity 1.
Note2(path, value) == [path |-> path, arity |-> 2, value |-> value]
Note1(path) == [path |-> path, arity |-> 1, value |-> 0]

\* What a call leaves behind: the database, the result, the notifications.
Outcome(db, r, fired) == [db |-> db, ret |-> r, fired |-> fired]
Failed(db, r) == Outcome(db, r, << >>)

\* set_value notifying on every write, whether running or not.
set_value_always_notifies(db, run, node_path, value_name, value) ==
    LET r == go_to_path(db, node_path)
        safe_value_name == SafeName(value_name)
    IN  IF r.tag # "ok" THEN Failed(db, r)
        ELSE IF r.kind # "node" THEN Failed(db, Raise("TypeError"))
        ELSE Outcome([db EXCEPT ![r.x][safe_value_name] = Val(value)],
                     OkBool(~Contains(db, r.x, safe_value_name)),
                     <<Note2(Join(node_path, value_name), value)>>)

set_value(db, run, node_path, value_name, value) ==
    LET r == go_to_path(db, node_path)
        safe_value_name == SafeName(value_name)
    IN  IF r.tag # "ok" THEN Failed(db, r)
        ELSE IF r.kind # "node" THEN Failed(db, Raise("TypeError"))
        ELSE LET node == r.x
                 new_val == ~Contains(db, node, safe_value_name)
                 written == [db EXCEPT ![node][safe_value_name] = Val(value)]
                 note == Note2(Join(node_path, value_name), value)
             IN  IF run
                 THEN Outcome(written, OkBool(new_val), <<note>>)
                 ELSE Outcome(written, OkBool(new_val),
                              IF new_val THEN <<note>> ELSE << >>)

RECURSIVE get_value(_, _, _)
get_value(db, assumed_path, value_name) ==
    LET r == go_to_path(db, assumed_path)
        safe_value_name == SafeName(value_name)
    IN  IF r.tag # "ok" THEN r
        ELSE IF r.kind # "node" THEN Raise("TypeError")
        ELSE IF Contains(db, r.x, safe_value_name)
             THEN Ok(db[r.x][safe_value_name])
             ELSE LET new_assumed_path == RPartitionHead(assumed_path)
                  IN  IF assumed_path = new_assumed_path
                      THEN Raise("KeyError")
                      ELSE get_value(db, new_assumed_path, value_name)

delete_value(db, node_path, value_name) ==
    LET r == go_to_path(db, node_path)
        safe_value_name == SafeName(value_name)
    IN  IF r.tag # "ok" THEN Failed(db, r)
        ELSE IF r.kind # "node" THEN Failed(db, Raise("TypeError"))
        ELSE IF Contains(db, r.x, safe_value_name)
             THEN Outcome([db EXCEPT ![r.x][safe_value_name] = Absent], OkNone,
                          <<Note1(Join(node_path, value_name))>>)
             ELSE Failed(db, Raise("ValueError"))

\* parent_node[node_name] = DatabaseNode()
create_node(db, parent_path, node_name, fresh) ==
    LET r == go_to_path(db, parent_path)
    IN  IF r.tag # "ok" THEN Failed(db, r)
        ELSE IF r.kind # "node" THEN Failed(db, Raise("TypeError"))
        ELSE Outcome([db EXCEPT ![r.x][node_name] = NodeRef(fresh)], OkNone, << >>)

\* parent_node[new_name] = parent_node[old_name]; del parent_node[old_name]
rename_node(db, parent_path, new_name, old_name) ==
    LET r == go_to_path(db, parent_path)
    IN  IF r.tag # "ok" THEN Failed(db, r)
        ELSE IF r.kind # "node" THEN Failed(db, Raise("TypeError"))
        ELSE IF ~Contains(db, r.x, old_name) THEN Failed(db, Raise("KeyError"))
        ELSE LET assigned == [db EXCEPT ![r.x][new_name] = db[r.x][old_name]]
             IN  Outcome([assigned EXCEPT ![r.x][old_name] = Absent], OkNone, << >>)

delete_node(db, parent_path, node_name) ==
    LET r == go_to_path(db, parent_path)
    IN  IF r.tag # "ok" THEN Failed(db, r)
        ELSE IF r.kind # "node" THEN Failed(db, Raise("TypeError"))
        ELSE IF Contains(db, r.x, node_name)
             THEN Outcome([db EXCEPT ![r.x][node_name] = Absent], OkNone, << >>)
             ELSE Failed(db, Raise("ValueError"))

\* --------------------------------------------------------------- listing
\* ord(c) for the characters of the names and paths.
Ord(c) ==
    CASE c = "/" -> 47 [] c = "_" -> 95 [] c = "a" -> 97 [] c = "d" -> 100
      [] c = "e" -> 101 [] c = "h" -> 104 [] c = "i" -> 105 [] c = "n" -> 110
      [] c = "o" -> 111 [] c = "r" -> 114 [] c = "s" -> 115 [] c = "t" -> 116

\* s < t for two str: the first differing character decides, a proper
\* prefix is smaller.
RECURSIVE StrLess(_, _)
StrLess(s, t) ==
    IF t = << >> THEN FALSE
    ELSE IF s = << >> THEN TRUE
    ELSE IF Head(s) = Head(t) THEN StrLess(Tail(s), Tail(t))
    ELSE Ord(Head(s)) < Ord(Head(t))

\* sorted(entries): every element kept, duplicates included.
RECURSIVE Insert(_, _)
Insert(x, l) ==
    IF l = << >> THEN <<x>>
    ELSE IF StrLess(Head(l), x) THEN <<Head(l)>> \o Insert(x, Tail(l))
    ELSE <<x>> \o l

RECURSIVE sorted(_)
sorted(l) == IF l = << >> THEN << >> ELSE Insert(Head(l), sorted(Tail(l)))

\* list.remove(x): removes the first occurrence of x.
RECURSIVE Remove(_, _)
Remove(l, x) ==
    IF l = << >> THEN << >>
    ELSE IF Head(l) = x THEN Tail(l)
    ELSE <<Head(l)>> \o Remove(Tail(l), x)

\* `for entry in self.excluded: if entry in entries: entries.remove(entry)`
RECURSIVE RemoveExcluded(_, _)
RemoveExcluded(entries, excl) ==
    IF excl = << >> THEN entries
    ELSE RemoveExcluded(IF \E i \in 1..Len(entries) : entries[i] = Head(excl)
                        THEN Remove(entries, Head(excl)) ELSE entries,
                        Tail(excl))

\* node.keys(): the keys of a dict, in the order the dict yields them.
RECURSIVE SeqOf(_)
SeqOf(S) ==
    IF S = {} THEN << >>
    ELSE LET k == CHOOSE x \in S : \A y \in S : x = y \/ StrLess(x, y)
         IN  <<k>> \o SeqOf(S \ {k})

node_keys(db, node) == SeqOf({k \in Keys : db[node][k].kind # "absent"})

\* `for key in keys: if not isinstance(node[key], DatabaseNode):
\*      entries.append(key[1:])`
RECURSIVE AppendEntries(_, _, _)
AppendEntries(db, node, ks) ==
    IF ks = << >> THEN << >>
    ELSE (IF db[node][Head(ks)].kind # "node" THEN <<Tail(Head(ks))>> ELSE << >>)
             \o AppendEntries(db, node, Tail(ks))

\* The entries gathered from node_path up to the root, or the error raised
\* on the way. keys() on a stored value (an int) raises AttributeError.
RECURSIVE Gather(_, _)
Gather(db, node_path) ==
    LET r == go_to_path(db, node_path)
    IN  IF r.tag # "ok" THEN r
        ELSE IF r.kind # "node" THEN Raise("AttributeError")
        ELSE LET here == AppendEntries(db, r.x, node_keys(db, r.x))
             IN  IF node_path = ROOT THEN [tag |-> "ok", kind |-> "list", x |-> here]
                 ELSE LET up == Gather(db, RPartitionHead(node_path))
                      IN  IF up.tag # "ok" THEN up
                          ELSE [tag |-> "ok", kind |-> "list", x |-> here \o up.x]

list_accessible_entries(db, node_path) ==
    LET g == Gather(db, node_path)
    IN  IF g.tag # "ok" THEN g
        ELSE [tag |-> "ok", kind |-> "list", x |-> sorted(RemoveExcluded(g.x, excluded))]

\* entries.update(aux) for two dict: the keys of aux take the values of aux.
Update(entries, aux) == aux @@ entries

\* del entries[aux]
DelKey(entries, aux) == [k \in (DOMAIN entries) \ {aux} |-> entries[k]]

\* `for entry in self.excluded: aux = path + '/' + entry; if aux in entries:`
\* entries.remove(aux) for the list, del entries[aux] for the dict.
RECURSIVE DropExcluded(_, _, _, _)
DropExcluded(entries, excl, path, values) ==
    IF excl = << >> THEN entries
    ELSE LET aux == Join(path, Head(excl))
             rest == IF ~values
                     THEN IF \E i \in 1..Len(entries) : entries[i] = aux
                          THEN Remove(entries, aux) ELSE entries
                     ELSE IF aux \in DOMAIN entries
                          THEN DelKey(entries, aux) ELSE entries
         IN  DropExcluded(rest, Tail(excl), path, values)

\* The list of full paths (values false) or the dict from full paths to
\* values (values true) of the entries of the node at path and below.
\* An empty list and an empty dict are both << >>.
RECURSIVE list_all_entries(_, _, _)
list_all_entries(db, path, values) ==
    LET node == go_to_path(db, path).x
        RECURSIVE Loop(_, _)
        Loop(ks, entries) ==
            IF ks = << >> THEN entries
            ELSE LET entry == Head(ks)
                 IN  IF db[node][entry].kind = "node"
                     THEN LET aux == list_all_entries(db, Join(path, entry), values)
                          IN  Loop(Tail(ks), IF ~values THEN entries \o aux
                                             ELSE Update(entries, aux))
                     ELSE LET full == Join(path, Tail(entry))
                          IN  Loop(Tail(ks), IF ~values THEN Append(entries, full)
                                             ELSE Update(entries, full :> db[node][entry].x))
        all == Loop(node_keys(db, node), << >>)
        kept == IF path = ROOT THEN DropExcluded(all, excluded, path, values) ELSE all
    IN  IF ~values THEN sorted(kept) ELSE kept

\* ----------------------------------------------------------------- state
VARIABLES
    database,   \* _database: the heap of dict objects, RootId being the root
    running,    \* _running
    lock,       \* _lock: made = a Lock() was created, holder = 0 when free
    notifier,   \* notifications fired by the call the caller has not yet left
    call,       \* the call just made, with its arguments, until the caller moves on
    ret,        \* what that call returned or raised
    th,         \* the threads of the running phase and their local variables
    find,       \* ArrayFindValueTask: the call of perform and what it left
    dc,         \* SetDCCurrentTask: the call of smooth_set, the instrument, the entry
    alazar      \* Alazar987x: the acquisition under way, the board and the buffers

vars == <<database, running, lock, notifier, call, ret, th, find, dc, alazar>>

Threads == 1..NumThreads

Call(op, path, name, new_name, value) ==
    [op |-> op, path |-> path, name |-> name, new_name |-> new_name, value |-> value]

NoCall == Call("none", EmptyStr, EmptyStr, EmptyStr, 0)

IdleThread ==
    [pc |-> "idle", op |-> "none", path |-> EmptyStr, cur |-> EmptyStr,
     name |-> EmptyStr, value |-> 0,
     keys |-> << >>, node |-> Absent, new_val |-> FALSE, res |-> OkNone]

\* No call of ArrayFindValueTask.perform under way; the entry 'index' holds
\* its default, task_database_entries = {'index': 0}.
IdleFind ==
    [pc |-> "idle", array |-> << >>, value |-> 0, index |-> 0, logged |-> FALSE,
     res |-> OkNone]

\* The entry 'current' before anything wrote it: the default 0.01 of
\* task_database_entries; afterwards the value written.
DefaultCurrent == [written |-> FALSE, x |-> 0]
Written(v) == [written |-> TRUE, x |-> v]

\* No call of SetDCCurrentTask.smooth_set under way. instr is the current
\* the instrument outputs, stop is root_task.should_stop.
IdleDC ==
    [pc |-> "idle", value |-> 0, last_value |-> 0, step |-> 0, start |-> 0,
     instr |-> 0, entry |-> DefaultCurrent, stop |-> FALSE, stop_in_call |-> FALSE,
     calls |-> << >>, res |-> OkNone]

\* No acquisition under way. buffers is the number of DMABuffer objects of
\* the list `buffers`, numbered from 0; posted is the buffers posted to
\* the board and not waited for since, oldest first; log is every call made
\* to the DLL and to the buffers so far, and every copy of a buffer's data.
IdleAlazar ==
    [pc |-> "idle", method |-> "none", buffers |-> 0, buffersPerAcquisition |-> 0,
     i |-> 0, buffersCompleted |-> 0, buffer |-> 0, retCode |-> "ApiSuccess",
     posted |-> << >>, log |-> << >>, res |-> OkNone]

Init ==
    /\ database = [i \in NodeIds |-> EmptyDict]
    /\ running = FALSE
    /\ lock = [made |-> FALSE, holder |-> 0]
    /\ notifier = << >>
    /\ call = NoCall
    /\ ret = OkNone
    /\ th = [t \in Threads |-> IdleThread]
    /\ find = IdleFind
    /\ dc = IdleDC
    /\ alazar = IdleAlazar

\* Dict objects the threads hold in a local variable.
ThreadRoots(ths) == {ths[t].node.x : t \in {u \in Threads : ths[u].node.kind = "node"}}

\* A call made by the single thread of the configuration phase, or by one
\* thread alone once running: with _running set it takes and releases the
\* lock, which must be free. The caller makes one call at a time.
CanCall ==
    /\ call = NoCall
    /\ running => lock.made /\ lock.holder = 0
    /\ \A t \in Threads : th[t].pc = "idle"

Finish(c, out) ==
    /\ database' = IF out.db = database THEN database ELSE Collect(out.db, {})
    /\ notifier' = out.fired
    /\ call' = c
    /\ ret' = out.ret
    /\ UNCHANGED <<running, lock, th, find, dc, alazar>>

SetValue ==
    \E p \in Paths, n \in ValueNames, v \in Values :
        /\ CanCall
        /\ Finish(Call("set_value", p, n, EmptyStr, v), set_value(database, running, p, n, v))

GetValue ==
    \E p \in Paths, n \in ValueNames :
        /\ CanCall
        /\ Finish(Call("get_value", p, n, EmptyStr, 0),
                  Failed(database, get_value(database, p, n)))

DeleteValue ==
    \E p \in Paths, n \in ValueNames :
        /\ CanCall
        /\ Finish(Call("delete_value", p, n, EmptyStr, 0), delete_value(database, p, n))

CreateNodeAt(p, x) ==
    /\ CanCall
    /\ FreeIds(database, {}) # {}
    /\ Finish(Call("create_node", p, x, EmptyStr, 0),
              create_node(database, p, x, NewId(database, {})))

CreateNode == \E p \in ParentPaths, x \in NodeNames : CreateNodeAt(p, x)

RenameNode ==
    \E p \in ParentPaths, new \in NodeNames, old \in NodeNames :
        /\ CanCall
        /\ Finish(Call("rename_node", p, old, new, 0), rename_node(database, p, new, old))

DeleteNode ==
    \E p \in ParentPaths, x \in NodeNames :
        /\ CanCall
        /\ Finish(Call("delete_node", p, x, EmptyStr, 0), delete_node(database, p, x))

PrepareForRunning ==
    /\ call = NoCall
    /\ \A t \in Threads : th[t].pc = "idle"
    /\ lock' = [made |-> TRUE, holder |-> 0]
    /\ running' = TRUE
    /\ UNCHANGED <<database, notifier, call, ret, th, find, dc, alazar>>

\* The caller has the result of its call and moves on.
ReturnToCaller ==
    /\ call # NoCall
    /\ call' = NoCall
    /\ ret' = OkNone
    /\ notifier' = << >>
    /\ UNCHANGED <<database, running, lock, th, find, dc, alazar>>

Next ==
    \/ SetValue
    \/ GetValue
    \/ DeleteValue
    \/ CreateNode
    \/ RenameNode
    \/ DeleteNode
    \/ PrepareForRunning
    \/ ReturnToCaller

Spec == Init /\ [][Next]_vars

\* ----------------------------------------------------------------------
\* The running phase: threads call set_value, get_value and delete_value,
\* one access to the shared objects per step.
\* ----------------------------------------------------------------------
ThreadOps == {"set_value", "get_value", "delete_value"}
ThreadPaths == {ROOT, Join(ROOT, StrA)}
\* What the threads store: which value it is plays no part in the locking.
ThreadValues == {1}

\* The keys _go_to_path walks for a path.
PathKeys(path) == IF path = ROOT THEN << >> ELSE Tail(Split(path))

\* _go_to_path has a key left to look up, or returns the node it reached
\* (`return node` touches nothing shared: it is part of the step before).
Walk(keys) == IF keys = << >> THEN "check" ELSE "goto"

\* A call that never takes the lock.
NoLockBranch(run) == "plain"

\* Where a call goes once it has tested `safe_value_name in node` and read
\* _running: to lock.acquire() when running, straight to the dict otherwise.
AccessBranch(run) == IF run THEN "acquire" ELSE "plain"

\* The call of thread t ends: it returned or raised r, and its arguments
\* and local variables are gone.
Done(t, r) == [th EXCEPT ![t] = [IdleThread EXCEPT !.op = th[t].op, !.res = r]]

ThreadCall(t) ==
    /\ running
    /\ th[t].pc = "idle"
    /\ \E op \in ThreadOps, p \in ThreadPaths, n \in ValueNames, v \in ThreadValues :
          /\ th' = [th EXCEPT ![t] =
                      [pc |-> Walk(PathKeys(p)), op |-> op, path |-> p, cur |-> p, name |-> n,
                       value |-> IF op = "set_value" THEN v ELSE 0,
                       keys |-> PathKeys(p), node |-> NodeRef(RootId),
                       new_val |-> FALSE, res |-> OkNone]]
    /\ UNCHANGED <<database, running, lock, notifier, call, ret, find, dc, alazar>>

\* _go_to_path: `if key in node`.
GoToPathStep(t) ==
    /\ th[t].pc = "goto"
    /\ th' = IF th[t].node.kind # "node" THEN Done(t, Raise("TypeError"))
             ELSE IF Contains(database, th[t].node.x, Head(th[t].keys))
                  THEN [th EXCEPT ![t].pc = "fetch"]
                  ELSE Done(t, Raise("ValueError"))
    /\ database' = Collect(database, ThreadRoots(th'))
    /\ UNCHANGED <<running, lock, notifier, call, ret, find, dc, alazar>>

\* _go_to_path: `node = node[key]`.
FetchStep(t) ==
    /\ th[t].pc = "fetch"
    /\ th' = IF Contains(database, th[t].node.x, Head(th[t].keys))
             THEN [th EXCEPT ![t] = [@ EXCEPT !.pc = Walk(Tail(th[t].keys)),
                                              !.node = database[th[t].node.x][Head(th[t].keys)],
                                              !.keys = Tail(th[t].keys)]]
             ELSE Done(t, Raise("KeyError"))
    /\ database' = Collect(database, ThreadRoots(th'))
    /\ UNCHANGED <<running, lock, notifier, call, ret, find, dc, alazar>>

\* `safe_value_name in node`, then the read of _running.
CheckStep(t) ==
    /\ th[t].pc = "check"
    /\ LET me == th[t]
           found == Contains(database, me.node.x, SafeName(me.name))
           new_assumed_path == RPartitionHead(me.cur)
       IN  th' =
             IF me.node.kind # "node" THEN Done(t, Raise("TypeError"))
             ELSE IF me.op = "set_value"
                  THEN [th EXCEPT ![t] = [@ EXCEPT !.new_val = ~found,
                                                   !.pc = AccessBranch(running)]]
             ELSE IF me.op = "get_value"
                  THEN IF found THEN [th EXCEPT ![t].pc = AccessBranch(running)]
                       ELSE IF me.cur = new_assumed_path THEN Done(t, Raise("KeyError"))
                       ELSE [th EXCEPT ![t] = [@ EXCEPT !.pc = Walk(PathKeys(new_assumed_path)),
                                                        !.cur = new_assumed_path,
                                                        !.keys = PathKeys(new_assumed_path),
                                                        !.node = NodeRef(RootId)]]
             ELSE IF found THEN [th EXCEPT ![t].pc = AccessBranch(running)]
                  ELSE Done(t, Raise("ValueError"))
    /\ database' = Collect(database, ThreadRoots(th'))
    /\ UNCHANGED <<running, lock, notifier, call, ret, find, dc, alazar>>

\* self._lock.acquire(): waits until the lock is free.
AcquireStep(t) ==
    /\ th[t].pc = "acquire"
    /\ lock.made /\ lock.holder = 0
    /\ lock' = [lock EXCEPT !.holder = t]
    /\ th' = [th EXCEPT ![t].pc = "locked"]
    /\ UNCHANGED <<database, running, notifier, call, ret, find, dc, alazar>>

\* The access to the dict: node[safe_value_name] = value and the
\* notification, value = node[safe_value_name], or del node[safe_value_name].
\* An access that raises leaves the method at once: a lock taken is not
\* released. The notifier is an Event: assigning to it calls the observers
\* and stores nothing, and the threads have no observer.
AccessStep(t) ==
    /\ th[t].pc \in {"locked", "plain"}
    /\ LET me == th[t]
           safe_value_name == SafeName(me.name)
           found == Contains(database, me.node.x, safe_value_name)
           after == IF me.pc = "locked" THEN "unlock" ELSE "return"
       IN  \/ /\ me.op = "set_value"
              /\ th' = [th EXCEPT ![t].pc = after]
              /\ database' = Collect([database EXCEPT ![me.node.x][safe_value_name] = Val(me.value)],
                                     ThreadRoots(th'))
           \/ /\ me.op = "get_value"
              /\ th' = IF found
                       THEN [th EXCEPT ![t] = [@ EXCEPT !.pc = after,
                                                        !.res = Ok(database[me.node.x][safe_value_name])]]
                       ELSE Done(t, Raise("KeyError"))
              /\ database' = Collect(database, ThreadRoots(th'))
           \/ /\ me.op = "delete_value"
              /\ th' = IF found THEN [th EXCEPT ![t].pc = after]
                       ELSE Done(t, Raise("KeyError"))
              /\ database' = IF found
                             THEN Collect([database EXCEPT ![me.node.x][safe_value_name] = Absent],
                                          ThreadRoots(th'))
                             ELSE Collect(database, ThreadRoots(th'))
    /\ UNCHANGED <<running, lock, notifier, call, ret, find, dc, alazar>>

\* self._lock.release() when the lock was taken, then what follows it:
\* `return new_val`, `return value`, or the notification of delete_value.
ReturnStep(t) ==
    /\ th[t].pc \in {"unlock", "return"}
    /\ lock' = IF th[t].pc = "unlock" THEN [lock EXCEPT !.holder = 0] ELSE lock
    /\ th' = IF th[t].op = "set_value" THEN Done(t, OkBool(th[t].new_val))
             ELSE IF th[t].op = "get_value" THEN Done(t, th[t].res)
             ELSE Done(t, OkNone)
    /\ database' = Collect(database, ThreadRoots(th'))
    /\ UNCHANGED <<running, notifier, call, ret, find, dc, alazar>>

\* The hierarchy is built before the measurement starts: the node the
\* threads address besides the root.
ConfigCreateNode == ~running /\ CreateNodeAt(ROOT, StrA)

NextThreads ==
    \/ ConfigCreateNode
    \/ PrepareForRunning
    \/ ReturnToCaller
    \/ \E t \in Threads : ThreadCall(t)
    \/ \E t \in Threads : GoToPathStep(t)
    \/ \E t \in Threads : FetchStep(t)
    \/ \E t \in Threads : CheckStep(t)
    \/ \E t \in Threads : AcquireStep(t)
    \/ \E t \in Threads : AccessStep(t)
    \/ \E t \in Threads : ReturnStep(t)

SpecThreads == Init /\ [][NextThreads]_vars

\* ----------------------------------------------------------------------
\* Listing the entries: nodes are created and renamed, values are stored
\* under the names of EntryNames at the root and at root/a, and the lists
\* are asked for.
\* ----------------------------------------------------------------------
EntryPaths == {ROOT, Join(ROOT, StrA)}

SetEntry ==
    \E p \in EntryPaths, n \in EntryNames, v \in Values :
        /\ CanCall
        /\ Finish(Call("set_value", p, n, EmptyStr, v), set_value(database, running, p, n, v))

ListAccessibleEntries ==
    \E p \in Paths :
        /\ CanCall
        /\ Finish(Call("list_accessible_entries", p, EmptyStr, EmptyStr, 0),
                  Failed(database, list_accessible_entries(database, p)))

\* list_all_entries(values=values), the path being left to its default.
ListAllEntries ==
    \E values \in BOOLEAN :
        /\ CanCall
        /\ Finish(Call("list_all_entries", ROOT, EmptyStr, EmptyStr, IF values THEN 1 ELSE 0),
                  Failed(database,
                         [tag |-> "ok", kind |-> IF values THEN "dict" ELSE "list",
                          x |-> list_all_entries(database, ROOT, values)]))

NextEntries ==
    \/ CreateNode
    \/ RenameNode
    \/ SetEntry
    \/ ListAccessibleEntries
    \/ ListAllEntries
    \/ ReturnToCaller

SpecEntries == Init /\ [][NextEntries]_vars

\* ----------------------------------------------------------------------
\* ArrayFindValueTask.perform. Floats are integers counting units of 5e-13.
\* ----------------------------------------------------------------------
\* Longest array and largest element and value handed to perform.
MaxLen == 3
MaxElem == 3

\* 1e-12, in units of 5e-13.
FIND_TOL == 2

Abs(x) == IF x < 0 THEN -x ELSE x

Arrays == UNION {[1..n -> 0..MaxElem] : n \in 0..MaxLen}

dbvars == <<database, running, lock, notifier, call, ret, th>>

\* np.where(np.abs(array - val) < 1e-12)[0]: the positions that match,
\* counted from 0 as numpy does.
Where(array, val) == {i - 1 : i \in {j \in 1..Len(array) : Abs(array[j] - val) < FIND_TOL}}

\* perform, from the array and the evaluated value on: `[0]` of an empty
\* array raises IndexError, which is caught and logged without binding
\* ind; write_in_database('index', ind) then reads the unbound local.
perform(array, val, index) ==
    LET found == Where(array, val)
    IN  IF found # {}
        THEN LET ind == CHOOSE i \in found : \A j \in found : i <= j
             IN  [index |-> ind, logged |-> FALSE, res |-> OkNone]
        ELSE [index |-> index, logged |-> TRUE, res |-> Raise("UnboundLocalError")]

FindPerform ==
    /\ find.pc = "idle"
    /\ \E array \in Arrays, val \in 0..MaxElem :
          LET out == perform(array, val, find.index)
          IN  find' = [pc |-> "done", array |-> array, value |-> val,
                       index |-> out.index, logged |-> out.logged, res |-> out.res]
    /\ UNCHANGED <<dbvars, dc, alazar>>

\* perform is over; the entry 'index' stays in the database.
FindReturn ==
    /\ find.pc = "done"
    /\ find' = [IdleFind EXCEPT !.index = find.index]
    /\ UNCHANGED <<dbvars, dc, alazar>>

NextFind ==
    \/ FindPerform
    \/ FindReturn

SpecFind == Init /\ [][NextFind]_vars

\* ----------------------------------------------------------------------
\* SetDCCurrentTask.smooth_set. Floats are integers counting units of
\* 5e-13, for the currents in A and for the settings in mA alike.
\* ----------------------------------------------------------------------
\* Longest ramp, in steps of 1e-9 A.
MaxSteps == 3

\* 1e-12, in units of 5e-13.
SET_TOL == 2
\* 10**-9, the grid round(x, 9) rounds to, in units of 5e-13.
NANO == 2000

\* x*10**-3
Milli(x) == x \div 1000

\* round(x, 9): to the nearest multiple of 1e-9, halves away from zero.
Round9(x) ==
    LET q == (Abs(x) + (NANO \div 2)) \div NANO
    IN  IF x < 0 THEN -(q * NANO) ELSE q * NANO

\* a/b > 0 for b # 0
RatioPositive(a, b) == (a > 0 /\ b > 0) \/ (a < 0 /\ b < 0)

\* Currents in A: the grid of 1e-9 A, and 5e-13 A off zero.
GridValues == {k * NANO : k \in 0..MaxSteps}
CurrentValues == GridValues \cup {1}
\* target_value, back_step and safe_max, in mA.
TargetValues == {1000 * g : g \in GridValues}
BackSteps == {0, 1000 * NANO, -(1000 * NANO)}
SafeMaxes == {0, 1000 * 2 * NANO}

\* setter(x), called from the ramp, from the last lines or from the branch
\* back_step == 0.
SetterCall(at, x) == [at |-> at, x |-> x]

\* The entry written as if the target had been reached.
StoppedEntryTarget(value, last_value) == value

\* What is written in the entry 'current' when the ramp was stopped.
StoppedEntry(value, last_value) == last_value

\* smooth_set from its first line to the first read of should_stop.
DcCall ==
    /\ dc.pc = "idle"
    /\ \E target_value \in TargetValues, back_step \in BackSteps,
          safe_max \in SafeMaxes, current_value \in CurrentValues :
          LET value == Milli(target_value)
              last_value == current_value
              step == IF RatioPositive(value - last_value, back_step)
                      THEN Milli(back_step) ELSE -Milli(back_step)
              begun == [dc EXCEPT !.value = value, !.last_value = last_value,
                                  !.start = current_value, !.instr = current_value,
                                  !.calls = << >>, !.stop_in_call = FALSE]
          IN  dc' =
                IF Milli(safe_max) # 0 /\ Milli(safe_max) < Abs(value)
                THEN [begun EXCEPT !.pc = "done", !.res = Raise("ValueError")]
                ELSE IF Abs(last_value - value) < SET_TOL
                THEN [begun EXCEPT !.pc = "done", !.res = OkNone,
                                   !.entry = Written(value)]
                ELSE IF back_step = 0
                THEN [begun EXCEPT !.pc = "done", !.res = OkNone,
                                   !.entry = Written(value), !.instr = value,
                                   !.calls = <<SetterCall("direct", value)>>]
                ELSE [begun EXCEPT !.step = step,
                                   !.pc = IF Abs(value - last_value) > Abs(step)
                                          THEN "while" ELSE "last"]
    /\ UNCHANGED <<dbvars, find, alazar>>

\* One turn of `while not self.root_task.should_stop.is_set():`.
DcWhile ==
    /\ dc.pc = "while"
    /\ dc' =
         IF dc.stop THEN [dc EXCEPT !.pc = "last"]
         ELSE LET last_value == Round9(dc.last_value + dc.step)
              IN  [dc EXCEPT !.last_value = last_value, !.instr = last_value,
                             !.calls = Append(@, SetterCall("ramp", last_value)),
                             !.pc = IF Abs(dc.value - last_value) > Abs(dc.step)
                                    THEN "while" ELSE "last"]
    /\ UNCHANGED <<dbvars, find, alazar>>

\* `if not self.root_task.should_stop.is_set():` and what follows it.
DcLast ==
    /\ dc.pc = "last"
    /\ dc' =
         IF ~dc.stop
         THEN [dc EXCEPT !.pc = "done", !.res = OkNone, !.instr = dc.value,
                         !.calls = Append(@, SetterCall("last", dc.value)),
                         !.entry = Written(dc.value)]
         ELSE [dc EXCEPT !.pc = "done", !.res = OkNone,
                         !.entry = Written(StoppedEntry(dc.value, dc.last_value))]
    /\ UNCHANGED <<dbvars, find, alazar>>

\* Another thread sets root_task.should_stop, before or during the call.
DcStop ==
    /\ dc.pc \in {"idle", "while", "last"}
    /\ ~dc.stop
    /\ dc' = [dc EXCEPT !.stop = TRUE, !.stop_in_call = (dc.pc # "idle")]
    /\ UNCHANGED <<dbvars, find, alazar>>

\* smooth_set is over; the next call belongs to a new measurement.
DcReturn ==
    /\ dc.pc = "done"
    /\ dc' = [IdleDC EXCEPT !.entry = dc.entry, !.instr = dc.instr]
    /\ UNCHANGED <<dbvars, find, alazar>>

NextDC ==
    \/ DcCall
    \/ DcWhile
    \/ DcLast
    \/ DcStop
    \/ DcReturn

SpecDC == Init /\ [][NextDC]_vars

\* ----------------------------------------------------------------------
\* Alazar987x.get_demod and Alazar987x.get_traces: the calls made to the
\* board and to the DMA buffers. The arithmetic on the samples is left out.
\* ----------------------------------------------------------------------
\* Largest recordsPerCapture and recordsPerBuffer.
MaxRecords == 6

\* bufferCount = 4 of get_traces
TRACES_BUFFERS == 4

Methods == {"get_demod", "get_traces"}

\* recordsPerCapture / recordsPerBuffer for two int (Python 2), which
\* round and math.ceil then leave as it is.
IntDiv(a, b) == a \div b

\* bufferCount
BufferCount(method, recordsPerCapture, recordsPerBuffer) ==
    IF method = "get_demod" THEN IntDiv(recordsPerCapture, recordsPerBuffer)
    ELSE TRACES_BUFFERS

\* Always the first buffer of the list.
FirstBuffer(buffersCompleted, len) == 0

\* buffers[buffersCompleted % len(buffers)]
HeadBuffer(buffersCompleted, len) == buffersCompleted % len

Event(op, buf) == [op |-> op, buf |-> buf]
NoBuf == -1

\* What WaitAsyncBufferComplete may return; the code does not look at it.
RetCodes == {"ApiSuccess", "ApiWaitTimeout"}

\* From the first line to BeforeAsyncRead: the buffers are allocated and
\* the board is configured.
AlazarCall ==
    /\ alazar.pc = "idle"
    /\ \E method \in Methods, recordsPerCapture \in 1..MaxRecords,
          recordsPerBuffer \in 1..MaxRecords :
          alazar' = [IdleAlazar EXCEPT
                        !.pc = "post", !.method = method,
                        !.buffers = BufferCount(method, recordsPerCapture, recordsPerBuffer),
                        !.buffersPerAcquisition = IntDiv(recordsPerCapture, recordsPerBuffer),
                        !.log = <<Event("BeforeAsyncRead", NoBuf)>>]
    /\ UNCHANGED <<dbvars, find, dc>>

\* The loop posting every buffer of the list.
AlazarPost ==
    /\ alazar.pc = "post"
    /\ alazar.i < alazar.buffers
    /\ alazar' = [alazar EXCEPT !.i = @ + 1,
                                !.posted = Append(@, alazar.i),
                                !.log = Append(@, Event("PostAsyncBuffer", alazar.i))]
    /\ UNCHANGED <<dbvars, find, dc>>

AlazarStartCapture ==
    /\ alazar.pc = "post"
    /\ alazar.i = alazar.buffers
    /\ alazar' = [alazar EXCEPT !.pc = IF alazar.method = "get_traces" THEN "clock" ELSE "wait",
                                !.log = Append(@, Event("StartCapture", NoBuf))]
    /\ UNCHANGED <<dbvars, find, dc>>

\* get_traces: `if time.clock() - start > acquisition_timeout_sec:`, the
\* time StartCapture took being either.
AlazarClock ==
    /\ alazar.pc = "clock"
    /\ \/ alazar' = [alazar EXCEPT !.pc = "wait"]
       \/ alazar' = [alazar EXCEPT !.pc = "done", !.res = Raise("Exception"),
                                   !.log = Append(@, Event("AbortCapture", NoBuf))]
    /\ UNCHANGED <<dbvars, find, dc>>

\* `while buffersCompleted < buffersPerAcquisition:` and, in the loop, the
\* choice of the buffer and WaitAsyncBufferComplete. Whatever the call
\* returns, the buffer has now been waited for.
AlazarWait ==
    /\ alazar.pc = "wait"
    /\ IF alazar.buffersCompleted < alazar.buffersPerAcquisition
       THEN \E retCode \in RetCodes :
              LET buffer == HeadBuffer(alazar.buffersCompleted, alazar.buffers)
              IN  alazar' = [alazar EXCEPT
                                !.pc = "copy", !.buffer = buffer, !.retCode = retCode,
                                !.posted = SelectSeq(@, LAMBDA b : b # buffer),
                                !.log = Append(@, Event("WaitAsyncBufferComplete", buffer))]
       ELSE alazar' = [alazar EXCEPT !.pc = "abort"]
    /\ UNCHANGED <<dbvars, find, dc>>

\* The data of the buffer are copied in the tables; buffersCompleted += 1.
AlazarCopy ==
    /\ alazar.pc = "copy"
    /\ alazar' = [alazar EXCEPT !.pc = "repost", !.buffersCompleted = @ + 1,
                                !.log = Append(@, Event("copy", alazar.buffer))]
    /\ UNCHANGED <<dbvars, find, dc>>

AlazarRepost ==
    /\ alazar.pc = "repost"
    /\ alazar' = [alazar EXCEPT !.pc = "wait",
                                !.posted = Append(@, alazar.buffer),
                                !.log = Append(@, Event("PostAsyncBuffer", alazar.buffer))]
    /\ UNCHANGED <<dbvars, find, dc>>

AlazarAbort ==
    /\ alazar.pc = "abort"
    /\ alazar' = [alazar EXCEPT !.pc = "release", !.i = 0, !.posted = << >>,
                                !.log = Append(@, Event("AbortAsyncRead", NoBuf))]
    /\ UNCHANGED <<dbvars, find, dc>>

\* The loop calling buffer.__exit__() on every buffer of the list, then
\* the computation of the result and the return.
AlazarRelease ==
    /\ alazar.pc = "release"
    /\ alazar' = IF alazar.i < alazar.buffers
                  THEN [alazar EXCEPT !.i = @ + 1,
                                      !.log = Append(@, Event("__exit__", alazar.i))]
                  ELSE [alazar EXCEPT !.pc = "done", !.res = OkNone]
    /\ UNCHANGED <<dbvars, find, dc>>

AlazarReturn ==
    /\ alazar.pc = "done"
    /\ alazar' = IdleAlazar
    /\ UNCHANGED <<dbvars, find, dc>>

NextAlazar ==
    \/ AlazarCall
    \/ AlazarPost
    \/ AlazarStartCapture
    \/ AlazarClock
    \/ AlazarWait
    \/ AlazarCopy
    \/ AlazarRepost
    \/ AlazarAbort
    \/ AlazarRelease
    \/ AlazarReturn

SpecAlazar == Init /\ [][NextAlazar]_vars

\* ======================================================================
\* Properties
\* ======================================================================
\* The path resolves, and to a dict object (a node), not to a stored value.
IsNodePath(db, path) ==
    LET r == go_to_path(db, path) IN r.tag = "ok" /\ r.kind = "node"

NodeAt(db, path) == go_to_path(db, path).x

\* The node has a value stored under value_name.
HoldsValue(db, node, value_name) ==
    /\ Contains(db, node, SafeName(value_name))
    /\ db[node][SafeName(value_name)].kind = "val"

StoredValue(db, node, value_name) == db[node][SafeName(value_name)].x

\* The nodes from the root down to the node a node path resolves to.
RECURSIVE ChainIds(_, _, _)
ChainIds(db, keys, node) ==
    IF keys = << >> THEN <<node>>
    ELSE <<node>> \o ChainIds(db, Tail(keys), db[node][Head(keys)].x)

Chain(db, path) == ChainIds(db, Tail(Split(path)), RootId)

\* Positions of the chain whose node holds a value under value_name.
Holders(db, path, value_name) ==
    {i \in 1..Len(Chain(db, path)) : HoldsValue(db, Chain(db, path)[i], value_name)}

Deepest(S) == CHOOSE i \in S : \A j \in S : j <= i

\* q is p followed by '/' and more.
IsDescendant(q, p) ==
    Len(q) > Len(p) /\ SubSeq(q, 1, Len(p) + 1) = p \o <<SLASH>>

IsCall(c, op) == c.op = op

\* C1: in every reachable state, for every path p that resolves to a node
\* and every name n held somewhere on the chain p, parent(p), ..., root,
\* get_value(p, n) returns the value stored under n at the deepest node of
\* that chain holding n.
C1_GetValueDeepest ==
    \A p \in Paths, n \in ValueNames :
        (IsNodePath(database, p) /\ Holders(database, p, n) # {}) =>
            LET d == Chain(database, p)[Deepest(Holders(database, p, n))]
            IN  get_value(database, p, n) = Ok(Val(StoredValue(database, d, n)))

\* Thread t is between lock.acquire() and lock.release().
InLockedRegion(t) == th[t].pc \in {"locked", "unlock"}

\* The step is one of thread t.
StepOf(t) == th'[t] # th[t]

\* The step reads a stored value into thread t's result.
ReadsValue(t) ==
    /\ th[t].op = "get_value" /\ th[t].pc \in {"locked", "plain"}
    /\ th'[t].res # th[t].res /\ th'[t].res.tag = "ok"

\* The step writes or removes an entry of a dict.
WritesEntry(t) ==
    /\ th[t].pc \in {"locked", "plain"}
    /\ th[t].op \in {"set_value", "delete_value"}
    /\ th'[t].pc \in {"unlock", "return"}

\* C2: once running, under every interleaving of threads calling
\* set_value, get_value and delete_value, a thread between acquire and
\* release is the holder of the one lock (so there is at most one), and
\* every step that writes or removes an entry or reads a stored value is
\* taken by the thread holding the lock.
C2_LockGuardsAccess ==
    /\ [](\A t \in Threads : InLockedRegion(t) => lock.made /\ lock.holder = t)
    /\ [](Cardinality({t \in Threads : InLockedRegion(t)}) <= 1)
    /\ [][\A t \in Threads :
             (StepOf(t) /\ (WritesEntry(t) \/ ReadsValue(t)))
                 => lock.made /\ lock.holder = t]_vars

\* Two threads have each taken the lock in turn and one wrote an entry
\* that the other then read under the lock.
C2_Witness ==
    \E t \in Threads, u \in Threads :
        /\ t # u
        /\ th[t].op = "get_value" /\ th[t].pc = "unlock" /\ lock.holder = t
        /\ th[t].res.kind = "val"
        /\ th[u].op \in {"set_value", "delete_value"} /\ th[u].pc = "acquire"

\* C3: after prepare_for_running, two threads calling delete_value for the
\* same existing entry: every such call either removes the entry and
\* returns, or raises ValueError; no call ends with another error.
C3_DeleteValueThreadSafe ==
    \A t \in Threads :
        (th[t].op = "delete_value" /\ th[t].pc = "idle")
            => th[t].res.tag \in {"ok", "ValueError"}

\* C4: every path on which _go_to_path succeeds resolves to a DatabaseNode,
\* never to a stored value, and two different paths never resolve to the
\* same node.
C4_UniqueNode ==
    /\ \A p \in Paths :
          go_to_path(database, p).tag = "ok" => go_to_path(database, p).kind = "node"
    /\ \A p \in Paths, q \in Paths :
          (p # q /\ IsNodePath(database, p) /\ IsNodePath(database, q))
              => NodeAt(database, p) # NodeAt(database, q)

\* C5: create_node(p, x) and set_value(p, y, v) never replace or remove
\* what the other created: a successful set_value leaves every child node
\* of p a child node, and a successful create_node leaves every value of p
\* stored, whatever the names x and y.
C5_NoMixing ==
    [][ /\ (IsCall(call', "set_value") /\ ret'.tag = "ok") =>
              \A x \in NodeNames :
                  database[NodeAt(database, call'.path)][x].kind = "node"
                      => database'[NodeAt(database, call'.path)][x].kind = "node"
        /\ (IsCall(call', "create_node") /\ ret'.tag = "ok") =>
              \A y \in ValueNames :
                  HoldsValue(database, NodeAt(database, call'.path), y)
                      => HoldsValue(database', NodeAt(database, call'.path), y)
      ]_vars

\* C6: set_value returns True exactly when the node itself held no value
\* under value_name immediately before the call.
C6_NewValIffAbsent ==
    [][ (IsCall(call', "set_value") /\ ret'.tag = "ok") =>
            (ret' = OkBool(TRUE)
                <=> ~HoldsValue(database, NodeAt(database, call'.path), call'.name))
      ]_vars

\* C7: right after set_value(p, n, v), get_value(q, n) returns v for q = p
\* and for every descendant node path q of p with no node below p, down to
\* q included, holding n.
C7_SetGetRoundTrip ==
    (IsCall(call, "set_value") /\ ret.tag = "ok") =>
        \A q \in Paths :
            ( /\ q = call.path \/ IsDescendant(q, call.path)
              /\ IsNodePath(database, q)
              /\ \A i \in Holders(database, q, call.name) :
                     i <= Len(Chain(database, call.path)) )
            => get_value(database, q, call.name) = Ok(Val(call.value))

\* C8: get_value(p, n) on a valid node path p raises KeyError when neither
\* the node nor any ancestor up to the root holds n, and leaves the
\* database unchanged.
C8_GetValueKeyError ==
    [][ (IsCall(call', "get_value") /\ IsNodePath(database, call'.path)) =>
            /\ database' = database
            /\ Holders(database, call'.path, call'.name) = {}
                   => ret' = Raise("KeyError")
      ]_vars

\* C9: delete_value(p, n) on a node holding n removes that entry and
\* nothing else; on a node not holding n it raises ValueError and leaves
\* the whole database unchanged.
C9_DeleteValueOnlyThere ==
    [][ (IsCall(call', "delete_value") /\ IsNodePath(database, call'.path)) =>
            LET node == NodeAt(database, call'.path)
            IN  IF HoldsValue(database, node, call'.name)
                THEN /\ ret' = OkNone
                     /\ database' =
                            [database EXCEPT ![node][SafeName(call'.name)] = Absent]
                ELSE /\ ret' = Raise("ValueError")
                     /\ database' = database
      ]_vars

Range(l) == {l[i] : i \in 1..Len(l)}

\* The list is in ascending order.
IsSorted(l) == \A i \in 1..Len(l), j \in 1..Len(l) : i < j => ~StrLess(l[j], l[i])

IsExcluded(n) == n \in Range(excluded)

\* C11: list_accessible_entries(p) on a node path p returns a sorted list
\* that contains a name n exactly when n is stored as a value at the node
\* or at one of its ancestors up to the root and n is not excluded; an
\* excluded name is never listed, at whatever levels it is stored.
C11_AccessibleEntries ==
    (IsCall(call, "list_accessible_entries") /\ IsNodePath(database, call.path)) =>
        /\ ret.tag = "ok" /\ ret.kind = "list"
        /\ IsSorted(ret.x)
        /\ \A n \in Range(ret.x) \cup EntryNames :
               n \in Range(ret.x)
                   <=> (Holders(database, call.path, n) # {} /\ ~IsExcluded(n))

\* The full paths of the value entries of every node of the tree, the
\* excluded entries of the root left out.
AllEntryPaths(db) ==
    {Join(p, n) : <<p, n>> \in {pn \in Paths \X EntryNames :
                                  /\ IsNodePath(db, pn[1])
                                  /\ HoldsValue(db, NodeAt(db, pn[1]), pn[2])}}
        \ {Join(ROOT, n) : n \in Range(excluded)}

\* C12: list_all_entries() returns the sorted full paths of every value
\* entry of every node except root/threads and root/instrs, each once; with
\* values=True it returns a dict whose keys are exactly those paths, the
\* value for p/n being the value stored at node p under n.
C12_AllEntries ==
    IsCall(call, "list_all_entries") =>
        IF call.value = 0
        THEN /\ ret.kind = "list"
             /\ IsSorted(ret.x)
             /\ Range(ret.x) = AllEntryPaths(database)
             /\ Len(ret.x) = Cardinality(AllEntryPaths(database))
        ELSE /\ ret.kind = "dict"
             /\ DOMAIN ret.x = AllEntryPaths(database)
             /\ \A p \in Paths, n \in EntryNames :
                    Join(p, n) \in DOMAIN ret.x
                        => ret.x[Join(p, n)] = StoredValue(database, NodeAt(database, p), n)

\* C13: rename_node(parent_path, new_name, old_name) with old_name an
\* existing child node, whatever new_name (old_name included): afterwards
\* parent_path/new_name is the node formerly at parent_path/old_name, its
\* dict and every other dict object unchanged; parent_path/old_name is gone
\* unless new_name = old_name; nothing that was stored under new_name is
\* lost, and every other key of the parent is unchanged.
C13_RenameNode ==
    [][ ( /\ IsCall(call', "rename_node")
          /\ IsNodePath(database, call'.path)
          /\ database[NodeAt(database, call'.path)][call'.name].kind = "node" )
        => LET parent == NodeAt(database, call'.path)
               old_name == call'.name
               new_name == call'.new_name
               renamed == database[parent][old_name]
           IN  /\ ret' = OkNone
               /\ database'[parent][new_name] = renamed
               /\ new_name # old_name => database'[parent][old_name] = Absent
               /\ new_name # old_name => database[parent][new_name] = Absent
               /\ \A k \in Keys \ {new_name, old_name} :
                      database'[parent][k] = database[parent][k]
               /\ \A i \in NodeIds \ {parent} : database'[i] = database[i]
      ]_vars

\* The call is a create_node, rename_node or delete_node whose node (for
\* rename_node, under its old or its new name) is on the path p.
AffectsPath(c, p) ==
    /\ c.op \in {"create_node", "rename_node", "delete_node"}
    /\ \E x \in {c.name} \cup (IF c.op = "rename_node" THEN {c.new_name} ELSE {}) :
          p = Join(c.path, x) \/ IsDescendant(p, Join(c.path, x))

\* The call is a set_value or delete_value of the entry n of the node at p.
WritesValue(c, p, n) ==
    c.op \in {"set_value", "delete_value"} /\ c.path = p /\ c.name = n

\* C14: a value v stored under n at the node p is still what
\* get_value(p, n) returns after every step that is neither a set_value or
\* delete_value of (p, n) nor a create_node, rename_node or delete_node of
\* a node on the path p.
C14_NoEviction ==
    [][ \A p \in Paths, n \in ValueNames :
          ( /\ IsNodePath(database, p)
            /\ HoldsValue(database, NodeAt(database, p), n)
            /\ ~WritesValue(call', p, n)
            /\ ~AffectsPath(call', p) )
          => get_value(database', p, n)
                 = Ok(Val(StoredValue(database, NodeAt(database, p), n)))
      ]_vars

\* The positions, counted from 0, of the elements of the array within 1e-12
\* of the value.
Matches == {i \in 0..(Len(find.array) - 1) : Abs(find.array[i + 1] - find.value) < FIND_TOL}

\* C15: once perform is over, if an element of the array is within 1e-12 of
\* the value, the entry 'index' is the index of the first such element and
\* perform returned; if none is, perform logged an error and returned
\* without raising.
C15_FindValue ==
    find.pc = "done" =>
        IF Matches # {}
        THEN /\ find.res = OkNone
             /\ find.index \in Matches
             /\ \A i \in Matches : find.index <= i
        ELSE find.logged /\ find.res = OkNone

\* smooth_set returned normally.
DcReturned == dc.pc = "done" /\ dc.res = OkNone

\* The last value passed to setter during the call.
LastSet == dc.calls[Len(dc.calls)].x

\* C16 as claimed: whenever smooth_set returns normally, the entry
\* 'current' equals the last value passed to setter during the call, or the
\* instrument value read at the start if setter was not called; when
\* should_stop was set during the call, setter(target) of the last lines
\* was not called.
C16_EntryFollowsInstrument ==
    DcReturned =>
        /\ dc.entry = Written(IF dc.calls # << >> THEN LastSet ELSE dc.start)
        /\ dc.stop_in_call => \A i \in 1..Len(dc.calls) : dc.calls[i].at # "last"

\* C16 amended: whenever smooth_set returns normally, the entry 'current'
\* equals the last value passed to setter during the call; if setter was
\* not called it equals the instrument value read at the start, or the
\* target when the target is within 1e-12 of that value; when should_stop
\* was set during the call, setter(target) of the last lines was not
\* called.
C16_EntryFollowsWithinTol ==
    DcReturned =>
        /\ dc.calls # << >> => dc.entry = Written(LastSet)
        /\ dc.calls = << >> =>
               \/ dc.entry = Written(dc.start)
               \/ dc.entry = Written(dc.value) /\ Abs(dc.value - dc.start) < SET_TOL
        /\ dc.stop_in_call => \A i \in 1..Len(dc.calls) : dc.calls[i].at # "last"

\* A ramp of at least two steps stopped on its way: the entry holds the
\* value reached, which is neither the start nor the target.
C16_Witness ==
    /\ DcReturned /\ dc.stop_in_call
    /\ Len(dc.calls) >= 2
    /\ dc.entry = Written(LastSet)
    /\ LastSet # dc.value /\ LastSet # dc.start /\ dc.instr = LastSet

\* The positions of the log holding the event.
At(op, buf) == {i \in 1..Len(alazar.log) : alazar.log[i] = Event(op, buf)}

\* The positions of the log holding a call of op, whatever the buffer.
AtOp(op) == {i \in 1..Len(alazar.log) : alazar.log[i].op = op}

AllocatedBuffers == 0..(alazar.buffers - 1)

\* BeforeAsyncRead precedes every PostAsyncBuffer.
ArmedBeforePost ==
    \A i \in AtOp("PostAsyncBuffer") : \E j \in AtOp("BeforeAsyncRead") : j < i

\* Every buffer of the list is posted before StartCapture.
PostedBeforeStart ==
    \A k \in AtOp("StartCapture") :
        \A b \in AllocatedBuffers : \E j \in At("PostAsyncBuffer", b) : j < k

\* A buffer posted after it was waited for had its data copied in between.
CopiedBeforeRepost ==
    \A b \in AllocatedBuffers :
        \A i \in At("PostAsyncBuffer", b), j \in At("WaitAsyncBufferComplete", b) :
            j < i => \E k \in At("copy", b) : j < k /\ k < i

\* On normal return AbortAsyncRead was called and every allocated buffer
\* was released exactly once.
ReleasedOnReturn ==
    (alazar.pc = "done" /\ alazar.res = OkNone) =>
        /\ AtOp("AbortAsyncRead") # {}
        /\ \A b \in AllocatedBuffers : Cardinality(At("__exit__", b)) = 1
        /\ Cardinality(AtOp("__exit__")) = alazar.buffers

\* The step calls WaitAsyncBufferComplete.
WaitIssued ==
    /\ Len(alazar'.log) = Len(alazar.log) + 1
    /\ alazar'.log[Len(alazar'.log)].op = "WaitAsyncBufferComplete"

\* C17: in get_demod and get_traces, BeforeAsyncRead precedes every
\* PostAsyncBuffer and every buffer is posted before StartCapture; every
\* WaitAsyncBufferComplete is issued on a buffer that is posted, the oldest
\* of those posted and not yet waited for; a buffer is posted again only
\* after its data were copied; on
\* normal return AbortAsyncRead was called and every allocated buffer was
\* released exactly once.
C17_DmaProtocol ==
    /\ [](ArmedBeforePost /\ PostedBeforeStart /\ CopiedBeforeRepost /\ ReleasedOnReturn)
    /\ [][WaitIssued =>
             /\ alazar.posted # << >>
             /\ Head(alazar.posted) = alazar'.log[Len(alazar'.log)].buf]_vars

\* get_traces returned normally after more buffers than the list holds:
\* the first buffer was waited for, copied and posted again, waited for a
\* second time, and released once.
C17_Witness ==
    /\ alazar.pc = "done" /\ alazar.res = OkNone /\ alazar.method = "get_traces"
    /\ alazar.buffersPerAcquisition > alazar.buffers
    /\ Cardinality(At("WaitAsyncBufferComplete", 0)) = 2
    /\ Cardinality(At("PostAsyncBuffer", 0)) = 3
    /\ Cardinality(At("__exit__", 0)) = 1

====
